---- MODULE Spec2Model ----
(***************************************************************************)
(* Model of frontend/script.js: the two-slot selection state machine, the  *)
(* cached appliance list and its rendering, and the camera / save /        *)
(* compare / extraction / export handlers together with the requests they  *)
(* leave in flight.                                                        *)
(* The backend behind /api is not part of the file; it is modelled from    *)
(* its request/response contract.                                          *)
(***************************************************************************)
EXTENDS Integers, Sequences, FiniteSets, TLC

\* ------------------------------------------------------------------ bounds
MaxEvents == 3      \* user events (clicks, file choices) in one run
MaxInFlight == 2    \* requests awaiting their response at one time

\* ------------------------------------------------------------- JS values
\* null / undefined: the empty slot marker and an absent JSON field.
Null == -1

\* The text "—" (an em dash) that handleOcrResult shows for a missing value.
Placeholder == "--"

\* JavaScript truthiness of a number-or-null value (0 and null are falsy).
Truthy(v) == v # Null /\ v # 0

Digit(d) ==
    CASE d = 0 -> "0" [] d = 1 -> "1" [] d = 2 -> "2" [] d = 3 -> "3" [] d = 4 -> "4"
      [] d = 5 -> "5" [] d = 6 -> "6" [] d = 7 -> "7" [] d = 8 -> "8" [] d = 9 -> "9"

RECURSIVE NumStr(_)
\* String(n) for a non-negative integer, as the assignment to textContent converts it.
NumStr(n) == IF n < 10 THEN Digit(n) ELSE NumStr(n \div 10) \o Digit(n % 10)

\* ------------------------------------------------------------ input sets
Slots == {0, 1}
InitialBackends == { <<[id |-> 0], [id |-> 1], [id |-> 2]>> }
InitialDetected == {"", Placeholder}
Manuals == {"", "500"}
Forms == { [name |-> "Fridge", price |-> "12000", rate |-> ""] }
OcrResults == { [isNull |-> TRUE,  kwh |-> Null, raw |-> ""],
                [isNull |-> FALSE, kwh |-> Null, raw |-> ""],
                [isNull |-> FALSE, kwh |-> 0,    raw |-> ""],
                [isNull |-> FALSE, kwh |-> 350,  raw |-> "350 kWh/yr"] }
Messages == {"", "Appliance added"}
RefusalMessages == {"", "Invalid AEC"}

VARIABLES
    selectedForCompare,  \* <<slot A, slot B>>, each an id or Null
    appliances,          \* the cached list: [isArray, recs]
    listEl,              \* the rendered items: <<[id, marked]>>
    detectedEl,          \* text of the "detected" element
    rawEl,               \* text of the "raw" element
    compareResult,       \* what displayCompare last rendered
    backend,             \* the backend's stored records
    listReqs,            \* list_appliances exchanges in flight
    addReqs,             \* add_appliance exchanges in flight
    cmpReqs,             \* compare exchanges in flight
    ocrReqs,             \* ocr exchanges in flight
    ev,                  \* the step just taken: handler, inputs, alert shown
    tog,                 \* per slot, its last two toggles: <<[id, pre]>>
    recent,              \* the last two toggles overall: <<[slot, id, pre]>>
    nEvents,             \* user events so far
    camera,              \* startCamera: "starting", "playing" or "denied"
    expReqs,             \* export_pdf exchanges in flight (their number)
    extraction           \* the latest extraction response, and whether an
                         \* accepted Add has since used the detected value

vars == <<selectedForCompare, appliances, listEl, detectedEl, rawEl, compareResult,
          backend, listReqs, addReqs, cmpReqs, ocrReqs, ev, tog, recent, nEvents,
          camera, expReqs, extraction>>

\* ---------------------------------------------------------------- helpers
Remove(q, i) == [j \in 1..(Len(q) - 1) |-> IF j < i THEN q[j] ELSE q[j + 1]]

Last(q) == q[Len(q)]

\* Keep the last two entries of a history.
Window(q) == IF Len(q) > 2 THEN Tail(q) ELSE q

\* A user event happened: no request in flight is "the latest thing" any more.
Stale(q) == [j \in 1..Len(q) |-> [q[j] EXCEPT !.fresh = FALSE]]

\* The response of request i is handled: the requests issued before it and
\* still in flight have been overtaken.
Overtake(q, i) == [j \in 1..Len(q) |-> IF j < i THEN [q[j] EXCEPT !.overtaken = TRUE] ELSE q[j]]

InFlight == Len(listReqs) + Len(addReqs) + Len(cmpReqs) + Len(ocrReqs) + expReqs

NoEv == [op |-> "none", manual |-> "", alert |-> "", origin |-> "", fresh |-> FALSE,
         rec |-> Null, accepted |-> FALSE, kind |-> "", download |-> "",
         overtaken |-> FALSE]

NoBody == [isArray |-> FALSE, recs |-> <<>>]
ErrorBody == [isArray |-> FALSE, recs |-> <<>>]
NoResult == [status |-> "none", ids |-> <<>>]

ListReq(origin, fresh, rec, accepted) ==
    [origin |-> origin, served |-> FALSE, body |-> NoBody, fresh |-> fresh,
     rec |-> rec, accepted |-> accepted, overtaken |-> FALSE]

\* ----------------------------------------------------------- pure helpers
\* Variants of toggleSlot's assignment with a slip in them.
ToggledNeverClears(sel, slot, id) == [sel EXCEPT ![slot + 1] = id]

ToggledReplaces(sel, slot, id) ==
    IF sel[slot + 1] = Null THEN [sel EXCEPT ![slot + 1] = id]
                            ELSE [sel EXCEPT ![slot + 1] = Null]

ToggledBothSlots(sel, slot, id) ==
    IF sel[slot + 1] = id THEN [sel EXCEPT ![slot + 1] = Null] ELSE <<id, id>>

ToggledExclusive(sel, slot, id) ==
    IF sel[slot + 1] = id THEN [sel EXCEPT ![slot + 1] = Null]
    ELSE [k \in 1..2 |-> IF k = slot + 1 THEN id ELSE IF sel[k] = id THEN Null ELSE sel[k]]

\* toggleSlot's assignment to selectedForCompare[slot].
Toggled(sel, slot, id) ==
    IF sel[slot + 1] = id THEN [sel EXCEPT ![slot + 1] = Null]
                          ELSE [sel EXCEPT ![slot + 1] = id]

\* selectedForCompare.includes(id)
Includes(sel, id) == \E k \in 1..Len(sel) : sel[k] = id

\* highlightSelected: style each rendered item by the cached record at its index.
HighlightSelected(items, cache, sel) ==
    [idx \in 1..Len(items) |->
        IF cache.isArray /\ idx <= Len(cache.recs)
        THEN [items[idx] EXCEPT !.marked = Includes(sel, cache.recs[idx].id)]
        ELSE items[idx]]

\* renderList: clear listEl, then one unstyled item per cached record; forEach
\* throws on a cache that is not an array, after listEl was cleared.
RenderList(cache) ==
    IF cache.isArray
    THEN [idx \in 1..Len(cache.recs) |-> [id |-> cache.recs[idx].id, marked |-> FALSE]]
    ELSE <<>>

\* A variant that merges the response into the cache instead of replacing it.
FetchedMerged(cache, data) ==
    IF cache.isArray /\ data.isArray
    THEN [isArray |-> TRUE, recs |-> cache.recs \o data.recs]
    ELSE data

\* A variant that keeps a list once one is loaded, dropping later responses.
FetchedKeepsLoaded(cache, data) ==
    IF cache.isArray /\ cache.recs # <<>> THEN cache ELSE data

\* fetchList's "appliances = data".
Fetched(cache, data) == data

\* A variant of the guard that looks at slot A only.
CompareRejectedSlotA(sel) == ~Truthy(sel[1])

\* compareBtn.onclick's guard.
CompareRejected(sel) == ~Truthy(sel[1]) \/ ~Truthy(sel[2])

\* Variants of the precedence: a default of "0", and the detected value first.
ResolveAecDefaultZero(manual, detected) ==
    IF manual # "" THEN manual ELSE IF detected # "" THEN detected ELSE "0"

ResolveAecDetectedFirst(manual, detected) ==
    IF detected # "" THEN detected ELSE IF manual # "" THEN manual ELSE ""

\* saveBtn.onclick: const aec = manual || detectedEl.textContent || "".
ResolveAec(manual, detected) ==
    IF manual # "" THEN manual ELSE IF detected # "" THEN detected ELSE ""

\* value || default, for the form's text fields.
OrDefault(v, d) == IF v # "" THEN v ELSE d

\* JSON.stringify(res) for an extraction result without raw_text.
Stringify(res) ==
    IF res.kwh = Null THEN "{}"
    ELSE "{\"estimated_kwh_per_year\":" \o NumStr(res.kwh) \o "}"

\* What an extraction response holds: nothing (JSON null), no
\* estimated_kwh_per_year, or a value.
ResultKind(res) ==
    IF res.isNull THEN "null" ELSE IF res.kwh = Null THEN "missing" ELSE "value"

\* handleOcrResult's two assignments.
DetectedText(res) == IF res.kwh = Null THEN Placeholder ELSE NumStr(res.kwh)
RawText(res) == IF res.raw # "" THEN res.raw ELSE Stringify(res)

\* The backend gives a new record an id no stored record has.
FreshId(recs) ==
    CHOOSE n \in 0..Len(recs) :
        /\ \A k \in 1..Len(recs) : recs[k].id # n
        /\ \A m \in 0..Len(recs) : (\A k \in 1..Len(recs) : recs[k].id # m) => n <= m

\* ------------------------------------------------------------------- Init
Init ==
    /\ selectedForCompare = <<Null, Null>>
    /\ appliances = [isArray |-> TRUE, recs |-> <<>>]
    /\ listEl = <<>>
    /\ detectedEl \in InitialDetected
    /\ rawEl = ""
    /\ compareResult = NoResult
    /\ backend \in InitialBackends
    /\ listReqs = <<ListReq("init", TRUE, Null, FALSE)>>
    /\ addReqs = <<>>
    /\ cmpReqs = <<>>
    /\ ocrReqs = <<>>
    /\ ev = NoEv
    /\ tog = [s \in Slots |-> <<>>]
    /\ recent = <<>>
    /\ nEvents = 0
    /\ camera = "starting"
    /\ expReqs = 0
    /\ extraction = [kind |-> "none", saved |-> FALSE]

\* ------------------------------------------------------------ user events
UserEvent == nEvents < MaxEvents /\ nEvents' = nEvents + 1

\* A click on "Slot A" / "Slot B" of the rendered item at index i.
toggleSlot(slot, i) ==
    LET id == listEl[i].id
        sel == Toggled(selectedForCompare, slot, id)
    IN  /\ UserEvent
        /\ InFlight < MaxInFlight
        /\ selectedForCompare' = sel
        /\ listReqs' = Append(Stale(listReqs), ListReq("toggle", TRUE, Null, FALSE))
        /\ listEl' = HighlightSelected(listEl, appliances, sel)
        /\ addReqs' = Stale(addReqs)
        /\ cmpReqs' = cmpReqs
        /\ ocrReqs' = ocrReqs
        /\ ev' = [NoEv EXCEPT !.op = "toggle"]
        /\ tog' = [tog EXCEPT ![slot] =
                      Window(Append(@, [id |-> id, pre |-> selectedForCompare[slot + 1]]))]
        /\ recent' = Window(Append(recent,
                         [slot |-> slot, id |-> id, pre |-> selectedForCompare]))
        /\ UNCHANGED <<camera, expReqs, extraction, appliances, detectedEl, rawEl, compareResult, backend>>

Toggle == \E slot \in Slots : \E i \in 1..Len(listEl) : toggleSlot(slot, i)

\* refreshBtn.onclick = fetchList
Refresh ==
    /\ UserEvent
    /\ InFlight < MaxInFlight
    /\ listReqs' = Append(Stale(listReqs), ListReq("refresh", TRUE, Null, FALSE))
    /\ addReqs' = Stale(addReqs)
    /\ cmpReqs' = cmpReqs
    /\ ocrReqs' = ocrReqs
    /\ ev' = [NoEv EXCEPT !.op = "refresh"]
    /\ UNCHANGED <<camera, expReqs, extraction, selectedForCompare, appliances, listEl, detectedEl, rawEl,
                   compareResult, backend, tog, recent>>

\* compareBtn.onclick
Compare ==
    /\ UserEvent
    /\ IF CompareRejected(selectedForCompare)
       THEN /\ cmpReqs' = cmpReqs
            /\ ev' = [NoEv EXCEPT !.op = "compare",
                          !.alert = "Choose two appliances using Slot A and Slot B"]
       ELSE /\ InFlight < MaxInFlight
            /\ cmpReqs' = Append(cmpReqs,
                                 [ids |-> selectedForCompare])
            /\ ev' = [NoEv EXCEPT !.op = "compare"]
    /\ listReqs' = Stale(listReqs)
    /\ addReqs' = Stale(addReqs)
    /\ ocrReqs' = ocrReqs
    /\ UNCHANGED <<camera, expReqs, extraction, selectedForCompare, appliances, listEl, detectedEl, rawEl,
                   compareResult, backend, tog, recent>>

\* saveBtn.onclick, up to its first await
saveClick(manual, form) ==
    LET aec == ResolveAec(manual, detectedEl)
    IN  /\ UserEvent
        /\ IF aec = ""
           THEN /\ addReqs' = Stale(addReqs)
                /\ ev' = [NoEv EXCEPT !.op = "save", !.manual = manual,
                              !.alert = "Please provide AEC (detected or manual)"]
           ELSE /\ InFlight < MaxInFlight
                /\ addReqs' = Append(Stale(addReqs),
                       [name |-> OrDefault(form.name, "Unnamed"),
                        price |-> OrDefault(form.price, "0"),
                        energy_rate |-> OrDefault(form.rate, "0"),
                        aec |-> aec, state |-> "sent", rec |-> Null, fresh |-> TRUE,
                        fromDetected |-> (manual = "")])
                /\ ev' = [NoEv EXCEPT !.op = "save", !.manual = manual]
        /\ listReqs' = Stale(listReqs)
        /\ cmpReqs' = cmpReqs
        /\ ocrReqs' = ocrReqs
        /\ UNCHANGED <<camera, expReqs, extraction, selectedForCompare, appliances, listEl, detectedEl, rawEl,
                       compareResult, backend, tog, recent>>

Save == \E manual \in Manuals : \E form \in Forms : saveClick(manual, form)

\* uploadInput.onchange, up to its first await
uploadChange(hasFile) ==
    /\ UserEvent
    /\ IF hasFile
       THEN /\ InFlight < MaxInFlight
            /\ ocrReqs' = Append(ocrReqs, [src |-> "upload"])
       ELSE ocrReqs' = ocrReqs
    /\ listReqs' = Stale(listReqs)
    /\ addReqs' = Stale(addReqs)
    /\ cmpReqs' = cmpReqs
    /\ extraction' = IF hasFile THEN [extraction EXCEPT !.saved = FALSE] ELSE extraction
    /\ ev' = [NoEv EXCEPT !.op = "upload"]
    /\ UNCHANGED <<camera, expReqs, selectedForCompare, appliances, listEl, detectedEl, rawEl,
                   compareResult, backend, tog, recent>>

Upload == \E hasFile \in BOOLEAN : uploadChange(hasFile)

\* ------------------------------------------------------ list_appliances
\* The backend answers a list request with its records, or with an error body.
serveList(i, ok) ==
    /\ ~listReqs[i].served
    /\ listReqs' = [listReqs EXCEPT ![i].served = TRUE,
                        ![i].body = IF ok THEN [isArray |-> TRUE, recs |-> backend]
                                          ELSE ErrorBody]
    /\ ev' = NoEv
    /\ UNCHANGED <<camera, expReqs, extraction, selectedForCompare, appliances, listEl, detectedEl, rawEl,
                   compareResult, backend, addReqs, cmpReqs, ocrReqs, tog, recent,
                   nEvents>>

ServeList == \E i \in 1..Len(listReqs) : \E ok \in BOOLEAN : serveList(i, ok)

\* fetchList after its awaits: appliances = data; renderList()
listResponse(i) ==
    LET r == listReqs[i]
        cache == Fetched(appliances, r.body)
    IN  /\ r.served
        /\ appliances' = cache
        /\ listEl' = RenderList(cache)
        /\ listReqs' = Remove(Overtake(listReqs, i), i)
        /\ ev' = [NoEv EXCEPT !.op = "listResponse", !.origin = r.origin,
                      !.fresh = r.fresh, !.rec = r.rec, !.accepted = r.accepted,
                      !.overtaken = r.overtaken]
        /\ UNCHANGED <<camera, expReqs, extraction, selectedForCompare, detectedEl, rawEl, compareResult, backend,
                       addReqs, cmpReqs, ocrReqs, tog, recent, nEvents>>

ListResponse == \E i \in 1..Len(listReqs) : listResponse(i)

\* fetch rejects, or res.json() throws: fetchList ends at the await.
listFail(i) ==
    /\ listReqs' = Remove(listReqs, i)
    /\ ev' = NoEv
    /\ UNCHANGED <<camera, expReqs, extraction, selectedForCompare, appliances, listEl, detectedEl, rawEl,
                   compareResult, backend, addReqs, cmpReqs, ocrReqs, tog, recent,
                   nEvents>>

ListFail == \E i \in 1..Len(listReqs) : listFail(i)

\* -------------------------------------------------------- add_appliance
\* The backend stores the record under a new id, or refuses the request.
serveAdd(i, accept) ==
    /\ addReqs[i].state = "sent"
    /\ IF accept
       THEN /\ backend' = Append(backend, [id |-> FreshId(backend)])
            /\ addReqs' = [addReqs EXCEPT ![i].state = "added",
                                          ![i].rec = FreshId(backend)]
       ELSE /\ backend' = backend
            /\ addReqs' = [addReqs EXCEPT ![i].state = "refused"]
    /\ ev' = NoEv
    /\ UNCHANGED <<camera, expReqs, extraction, selectedForCompare, appliances, listEl, detectedEl, rawEl,
                   compareResult, listReqs, cmpReqs, ocrReqs, tog, recent, nEvents>>

ServeAdd == \E i \in 1..Len(addReqs) : \E accept \in BOOLEAN : serveAdd(i, accept)

\* saveBtn.onclick after its awaits: alert(json.message || "Saved"); fetchList()
addResponse(i, message) ==
    LET r == addReqs[i]
    IN  /\ r.state # "sent"
        /\ message \in (IF r.state = "added" THEN Messages ELSE RefusalMessages)
        /\ addReqs' = Remove(addReqs, i)
        /\ extraction' = IF r.state = "added" /\ r.fromDetected /\ r.fresh
                             /\ r.aec = detectedEl
                          THEN [extraction EXCEPT !.saved = TRUE]
                          ELSE extraction
        /\ listReqs' = Append(listReqs,
                              ListReq("save", r.fresh, r.rec, r.state = "added"))
        /\ ev' = [NoEv EXCEPT !.op = "addResponse", !.alert = OrDefault(message, "Saved"),
                      !.rec = r.rec, !.accepted = (r.state = "added")]
        /\ UNCHANGED <<camera, expReqs, selectedForCompare, appliances, listEl, detectedEl, rawEl,
                       compareResult, backend, cmpReqs, ocrReqs, tog, recent, nEvents>>

AddResponse ==
    \E i \in 1..Len(addReqs) : \E message \in Messages \cup RefusalMessages :
        addResponse(i, message)

\* fetch rejects, or res.json() throws: the handler ends at the await.
addFail(i) ==
    /\ addReqs' = Remove(addReqs, i)
    /\ ev' = NoEv
    /\ UNCHANGED <<camera, expReqs, extraction, selectedForCompare, appliances, listEl, detectedEl, rawEl,
                   compareResult, backend, listReqs, cmpReqs, ocrReqs, tog, recent,
                   nEvents>>

AddFail == \E i \in 1..Len(addReqs) : addFail(i)

\* ---------------------------------------------------------------- compare
\* A variant that empties both slots once the comparison is shown.
compareResponseResets(i, status) ==
    /\ compareResult' = [status |-> status, ids |-> cmpReqs[i].ids]
    /\ cmpReqs' = Remove(cmpReqs, i)
    /\ selectedForCompare' = <<Null, Null>>
    /\ ev' = [NoEv EXCEPT !.op = "compareResponse"]
    /\ UNCHANGED <<camera, expReqs, extraction, appliances, listEl, detectedEl, rawEl,
                   backend, listReqs, addReqs, ocrReqs, tog, recent, nEvents>>

\* compareBtn.onclick after its awaits: displayCompare(json), whatever the status.
compareResponse(i, status) ==
    /\ compareResult' = [status |-> status, ids |-> cmpReqs[i].ids]
    /\ cmpReqs' = Remove(cmpReqs, i)
    /\ ev' = [NoEv EXCEPT !.op = "compareResponse"]
    /\ UNCHANGED <<camera, expReqs, extraction, selectedForCompare, appliances, listEl, detectedEl, rawEl, backend,
                   listReqs, addReqs, ocrReqs, tog, recent, nEvents>>

CompareResponse ==
    \E i \in 1..Len(cmpReqs) : \E status \in {"ok", "error"} : compareResponse(i, status)

compareFail(i) ==
    /\ cmpReqs' = Remove(cmpReqs, i)
    /\ ev' = NoEv
    /\ UNCHANGED <<camera, expReqs, extraction, selectedForCompare, appliances, listEl, detectedEl, rawEl,
                   compareResult, backend, listReqs, addReqs, ocrReqs, tog, recent,
                   nEvents>>

CompareFail == \E i \in 1..Len(cmpReqs) : compareFail(i)

\* -------------------------------------------------------------------- ocr
\* handleOcrResult(result) once sendBlobForOcr returns
ocrResponse(i, res) ==
    /\ ocrReqs' = Remove(ocrReqs, i)
    /\ IF res.isNull
       THEN UNCHANGED <<detectedEl, rawEl>>
       ELSE /\ detectedEl' = DetectedText(res)
            /\ rawEl' = RawText(res)
    /\ extraction' = [kind |-> ResultKind(res), saved |-> FALSE]
    /\ ev' = [NoEv EXCEPT !.op = "ocrResponse", !.kind = ResultKind(res)]
    /\ UNCHANGED <<camera, expReqs, selectedForCompare, appliances, listEl, compareResult, backend,
                   listReqs, addReqs, cmpReqs, tog, recent, nEvents>>

OcrResponse == \E i \in 1..Len(ocrReqs) : \E res \in OcrResults : ocrResponse(i, res)

ocrFail(i) ==
    /\ ocrReqs' = Remove(ocrReqs, i)
    /\ ev' = [NoEv EXCEPT !.op = "ocrFail"]
    /\ UNCHANGED <<camera, expReqs, extraction, selectedForCompare, appliances, listEl, detectedEl, rawEl,
                   compareResult, backend, listReqs, addReqs, cmpReqs, tog, recent,
                   nEvents>>

OcrFail == \E i \in 1..Len(ocrReqs) : ocrFail(i)

\* ----------------------------------------------------------------- camera
\* startCamera after its awaits: the stream plays, or getUserMedia rejects and
\* the catch logs a warning.
startCamera(granted) ==
    /\ camera = "starting"
    /\ camera' = IF granted THEN "playing" ELSE "denied"
    /\ ev' = [NoEv EXCEPT !.op = "startCamera"]
    /\ UNCHANGED <<selectedForCompare, appliances, listEl, detectedEl, rawEl,
                   compareResult, backend, listReqs, addReqs, cmpReqs, ocrReqs, tog,
                   recent, nEvents, expReqs, extraction>>

StartCamera == \E granted \in BOOLEAN : startCamera(granted)

\* video.videoWidth / videoHeight: 0 until a stream plays.
VideoWidth(cam) == IF cam = "playing" THEN 1280 ELSE 0
VideoHeight(cam) == IF cam = "playing" THEN 720 ELSE 0

\* const w = video.videoWidth || 640; const h = video.videoHeight || 480
CanvasWidth(cam) == IF VideoWidth(cam) # 0 THEN VideoWidth(cam) ELSE 640
CanvasHeight(cam) == IF VideoHeight(cam) # 0 THEN VideoHeight(cam) ELSE 480

\* canvas.toBlob hands the callback a blob unless the canvas has no pixels.
CaptureHasBlob(cam) == CanvasWidth(cam) > 0 /\ CanvasHeight(cam) > 0

\* captureBtn.onclick and its toBlob callback, up to the first await
Capture ==
    /\ UserEvent
    /\ IF CaptureHasBlob(camera)
       THEN /\ InFlight < MaxInFlight
            /\ ocrReqs' = Append(ocrReqs, [src |-> "capture"])
            /\ extraction' = [extraction EXCEPT !.saved = FALSE]
       ELSE UNCHANGED <<ocrReqs, extraction>>
    /\ listReqs' = Stale(listReqs)
    /\ addReqs' = Stale(addReqs)
    /\ ev' = [NoEv EXCEPT !.op = "capture"]
    /\ UNCHANGED <<selectedForCompare, appliances, listEl, detectedEl, rawEl,
                   compareResult, backend, cmpReqs, tog, recent, camera, expReqs>>

\* ----------------------------------------------------------------- export
\* exportPdfBtn.onclick, up to its first await
Export ==
    /\ UserEvent
    /\ InFlight < MaxInFlight
    /\ expReqs' = expReqs + 1
    /\ listReqs' = Stale(listReqs)
    /\ addReqs' = Stale(addReqs)
    /\ ev' = [NoEv EXCEPT !.op = "export"]
    /\ UNCHANGED <<selectedForCompare, appliances, listEl, detectedEl, rawEl,
                   compareResult, backend, cmpReqs, ocrReqs, tog, recent, camera,
                   extraction>>

\* A variant that skips the status check and always saves the body.
ExportOutcomeUnchecked(ok) == [alert |-> "", download |-> "WattCompare_Report.pdf"]

\* exportPdfBtn.onclick after the fetch: alert on !res.ok, else a.download, a.click()
ExportOutcome(ok) ==
    IF ok THEN [alert |-> "", download |-> "WattCompare_Report.pdf"]
          ELSE [alert |-> "PDF export failed", download |-> ""]

exportResponse(ok) ==
    /\ expReqs > 0
    /\ expReqs' = expReqs - 1
    /\ ev' = [NoEv EXCEPT !.op = "exportResponse", !.kind = IF ok THEN "ok" ELSE "error",
                  !.alert = ExportOutcome(ok).alert,
                  !.download = ExportOutcome(ok).download]
    /\ UNCHANGED <<selectedForCompare, appliances, listEl, detectedEl, rawEl,
                   compareResult, backend, listReqs, addReqs, cmpReqs, ocrReqs, tog,
                   recent, nEvents, camera, extraction>>

ExportResponse == \E ok \in BOOLEAN : exportResponse(ok)

\* fetch rejects, or the body cannot be read: the handler ends at the await.
ExportFail ==
    /\ expReqs > 0
    /\ expReqs' = expReqs - 1
    /\ ev' = [NoEv EXCEPT !.op = "exportFail"]
    /\ UNCHANGED <<selectedForCompare, appliances, listEl, detectedEl, rawEl,
                   compareResult, backend, listReqs, addReqs, cmpReqs, ocrReqs, tog,
                   recent, nEvents, camera, extraction>>

\* ------------------------------------------------------------------- Next
Next ==
    \/ Toggle
    \/ Refresh
    \/ Compare
    \/ Save
    \/ Upload
    \/ ServeList
    \/ ListResponse
    \/ ListFail
    \/ ServeAdd
    \/ AddResponse
    \/ AddFail
    \/ CompareResponse
    \/ CompareFail
    \/ OcrResponse
    \/ OcrFail
    \/ StartCamera
    \/ Capture
    \/ Export
    \/ ExportResponse
    \/ ExportFail

Spec == Init /\ [][Next]_vars

NextSelection ==
    \/ Toggle
    \/ Refresh
    \/ Compare
    \/ ServeList
    \/ ListResponse
    \/ ListFail
    \/ CompareResponse
    \/ CompareFail

SpecSelection == Init /\ [][NextSelection]_vars

NextRegistry ==
    \/ Save
    \/ Upload
    \/ ServeList
    \/ ListResponse
    \/ ListFail
    \/ ServeAdd
    \/ AddResponse
    \/ AddFail
    \/ OcrResponse
    \/ OcrFail

SpecRegistry == Init /\ [][NextRegistry]_vars

NextCapture ==
    \/ StartCamera
    \/ Capture
    \/ Upload
    \/ OcrResponse
    \/ OcrFail

SpecCapture == Init /\ [][NextCapture]_vars

NextReport ==
    \/ Refresh
    \/ Export
    \/ ExportResponse
    \/ ExportFail
    \/ ServeList
    \/ ListResponse
    \/ ListFail

SpecReport == Init /\ [][NextReport]_vars

\* The backend loses a stored record (removed outside this client).
forget(k) ==
    /\ backend \in InitialBackends
    /\ backend' = Remove(backend, k)
    /\ ev' = [NoEv EXCEPT !.op = "forget"]
    /\ UNCHANGED <<selectedForCompare, appliances, listEl, detectedEl, rawEl,
                   compareResult, listReqs, addReqs, cmpReqs, ocrReqs, tog, recent,
                   nEvents, camera, expReqs, extraction>>

Forget == \E k \in 1..Len(backend) : forget(k)

\* Every handler together, in runs where the user lets each exchange end before
\* the next one starts.
NextSerial ==
    /\ \/ Toggle
       \/ Refresh
       \/ Compare
       \/ Save
       \/ Upload
       \/ Capture
       \/ Export
       \/ ServeList
       \/ ListResponse
       \/ ListFail
       \/ ServeAdd
       \/ AddResponse
       \/ AddFail
       \/ CompareResponse
       \/ CompareFail
       \/ OcrResponse
       \/ OcrFail
       \/ ExportResponse
       \/ ExportFail
       \/ Forget
    /\ InFlight' <= 1

SpecSerial == Init /\ [][NextSerial]_vars

\* =================================================================== claims
\* What the toggle rule of the design gives for slot `slot`, written from the
\* rule's words: the slot empties if it held id, else takes id; the other
\* slot keeps its value.
RuleSlot(pre, slot, id) == IF pre[slot + 1] = id THEN Null ELSE id
Other(slot) == 1 - slot

\* Occurrences of id among the records of a list.
Count(id, recs) == Cardinality({k \in 1..Len(recs) : recs[k].id = id})

\* C1: both slots start empty, and after a toggle of slot s with x slot s is
\* empty if it held x and holds x otherwise, while the other slot keeps the
\* value it had before the toggle.
C1_ToggleRule ==
    IF recent = <<>>
    THEN selectedForCompare = <<Null, Null>>
    ELSE LET t == Last(recent)
         IN  /\ selectedForCompare[t.slot + 1] = RuleSlot(t.pre, t.slot, t.id)
             /\ selectedForCompare[Other(t.slot) + 1] = t.pre[Other(t.slot) + 1]

\* C1 witness: a toggle that deselected, and before it one that overwrote
\* another id.
C1_Witness ==
    /\ Len(recent) = 2
    /\ recent[2].pre[recent[2].slot + 1] = recent[2].id
    /\ selectedForCompare[recent[2].slot + 1] = Null
    /\ recent[1].pre[recent[1].slot + 1] \notin {Null, recent[1].id}

\* C2 as stated: after two toggles in a row of slot s with the same id, slot s
\* is empty.
C2_TwiceLeavesEmpty ==
    \A s \in Slots :
        (Len(tog[s]) = 2 /\ tog[s][1].id = tog[s][2].id)
            => selectedForCompare[s + 1] = Null

\* C2 amended: after two toggles in a row of slot s with the same id x, slot s
\* is empty unless it held x before the first of the two, and then it holds x.
C2_TwiceRestores ==
    \A s \in Slots :
        (Len(tog[s]) = 2 /\ tog[s][1].id = tog[s][2].id)
            => selectedForCompare[s + 1] =
                   (IF tog[s][1].pre = tog[s][1].id THEN tog[s][1].id ELSE Null)

\* C2 witness: slot s held another id, was toggled twice with x, and is empty.
C2_Witness ==
    \E s \in Slots :
        /\ Len(tog[s]) = 2
        /\ tog[s][1].id = tog[s][2].id
        /\ tog[s][1].pre \notin {Null, tog[s][1].id}
        /\ selectedForCompare[s + 1] = Null

\* C3 as stated: no id occupies both slots at once.
C3_AtMostOneSlot ==
    ~(selectedForCompare[1] = selectedForCompare[2] /\ selectedForCompare[1] # Null)

\* C3 amended: each slot holds one value at a time, empty or the id of that
\* slot's latest toggle; nothing keeps the two slots from holding the same id.
C3_OneValuePerSlot ==
    \A s \in Slots :
        \/ selectedForCompare[s + 1] = Null
        \/ tog[s] # <<>> /\ selectedForCompare[s + 1] = Last(tog[s]).id

\* C3 witness: both slots hold the same id, each by its own toggle.
C3_Witness ==
    /\ selectedForCompare[1] # Null
    /\ selectedForCompare[1] = selectedForCompare[2]
    /\ \A s \in Slots : tog[s] # <<>> /\ Last(tog[s]).id = selectedForCompare[1]

\* C4: from a state where neither slot holds x, a toggle of slot A with x
\* followed by a toggle of slot B with x ends with x in both slots.
C4_DuplicateAllowed ==
    (/\ Len(recent) = 2
     /\ recent[1].slot = 0 /\ recent[2].slot = 1
     /\ recent[1].id = recent[2].id
     /\ ~Includes(recent[1].pre, recent[1].id))
        => selectedForCompare = <<recent[1].id, recent[1].id>>

\* C4 witness: such a pair of toggles happened (here over a slot B that held
\* another id) and both slots hold x.
C4_Witness ==
    /\ Len(recent) = 2
    /\ recent[1].slot = 0 /\ recent[2].slot = 1
    /\ recent[1].id = recent[2].id
    /\ ~Includes(recent[1].pre, recent[1].id)
    /\ selectedForCompare = <<recent[1].id, recent[1].id>>

\* C5: a Compare click while a slot is empty shows a message, issues no
\* compare request and leaves the displayed result as it was.
C5_CompareRejectedLocally ==
    [][(ev'.op = "compare" /\ (selectedForCompare[1] = Null \/ selectedForCompare[2] = Null))
          => /\ ev'.alert # ""
             /\ cmpReqs' = cmpReqs
             /\ compareResult' = compareResult]_vars

\* C5 witness: Compare was clicked with slot A filled and slot B empty, and
\* the message was shown.
C5_Witness ==
    /\ ev.op = "compare"
    /\ selectedForCompare[1] # Null /\ selectedForCompare[2] = Null
    /\ ev.alert # ""
    /\ cmpReqs = <<>>

\* C6: a Compare click while both slots hold an id (0 included) issues exactly
\* one compare request, with ids = [slot A, slot B] as they were at the click.
C6_CompareIssuesOrderedPair ==
    [][(ev'.op = "compare" /\ selectedForCompare[1] # Null /\ selectedForCompare[2] # Null)
          => /\ Len(cmpReqs') = Len(cmpReqs) + 1
             /\ Last(cmpReqs').ids = selectedForCompare
             /\ ev'.alert = ""]_vars

\* C7: a Save click whose resolved energy value (the manual entry if not
\* empty, else the detected text) is empty shows a message and issues neither
\* an add request nor a list fetch.
C7_SaveRejectedLocally ==
    [][(ev'.op = "save" /\ (IF ev'.manual # "" THEN ev'.manual ELSE detectedEl) = "")
          => /\ ev'.alert # ""
             /\ Len(addReqs') = Len(addReqs)
             /\ Len(listReqs') = Len(listReqs)]_vars

\* C7 witness: Save was clicked with both values empty and the message shown.
C7_Witness ==
    /\ ev.op = "save"
    /\ ev.manual = "" /\ detectedEl = ""
    /\ ev.alert # ""
    /\ addReqs = <<>>

\* C8: the add request a Save click issues carries as aec the manual value
\* when that is not empty, whatever was detected, and the detected text when
\* the manual value is empty.
C8_AecPrecedence ==
    [][(ev'.op = "save" /\ Len(addReqs') > Len(addReqs))
          => Last(addReqs').aec = (IF ev'.manual # "" THEN ev'.manual ELSE detectedEl)]_vars

\* C8 witness: detected 350, manual empty, and the request just issued carries
\* aec "350".
C8_Witness ==
    /\ ev.op = "save"
    /\ ev.manual = "" /\ detectedEl = "350"
    /\ addReqs # <<>> /\ Last(addReqs).aec = "350"

\* The records the backend holds are its first ones and record rec: no other
\* Save has added one.
OnlyAdded(rec) ==
    \A k \in 1..Len(backend') :
        backend'[k].id = rec \/ \E b \in InitialBackends : \E j \in 1..Len(b) : b[j] = backend'[k]

\* C9: an accepted Save click issues exactly one add request and no list
\* fetch; its accepted response issues exactly one list fetch and no further
\* add request; and when that fetch's list arrives with no user event since the
\* click, the cached list is the list the backend served, holds the new record
\* exactly once, and is the backend's current list when the Save's record is
\* the only one added.
C9_SaveThenOneRefetch ==
    [][/\ (ev'.op = "save" /\ (IF ev'.manual # "" THEN ev'.manual ELSE detectedEl) # "")
            => /\ Len(addReqs') = Len(addReqs) + 1
               /\ Len(listReqs') = Len(listReqs)
       /\ (ev'.op = "addResponse" /\ ev'.accepted)
            => /\ Len(listReqs') = Len(listReqs) + 1
               /\ Last(listReqs').origin = "save"
               /\ Len(addReqs') = Len(addReqs) - 1
       /\ (ev'.op = "listResponse" /\ ev'.origin = "save" /\ ev'.accepted /\ ev'.fresh)
            => \E i \in 1..Len(listReqs) :
                  /\ listReqs' = Remove(Overtake(listReqs, i), i)
                  /\ listReqs[i].rec = ev'.rec
                  /\ appliances' = listReqs[i].body
                  /\ listReqs[i].body.isArray
                        => /\ Count(ev'.rec, appliances'.recs) = 1
                           /\ OnlyAdded(ev'.rec) => appliances'.recs = backend'
      ]_vars

\* C9 witness: the re-fetch of an accepted Save has arrived, no user event
\* since the click; the cache holds the new record once and is the backend's list.
C9_Witness ==
    /\ ev.op = "listResponse" /\ ev.origin = "save" /\ ev.accepted /\ ev.fresh
    /\ appliances.isArray
    /\ Count(ev.rec, appliances.recs) = 1
    /\ appliances.recs = backend

\* C10: once the list fetch a toggle triggered has been rendered, with no user
\* event since the toggle, exactly the rendered items whose id is in a slot are
\* marked.
C10_MarkedAfterRefetch ==
    (ev.op = "listResponse" /\ ev.origin = "toggle" /\ ev.fresh /\ appliances.isArray)
        => \A idx \in 1..Len(listEl) :
               listEl[idx].marked <=> Includes(selectedForCompare, listEl[idx].id)

\* C11: an export response with a non-success status shows the failure
\* message and downloads nothing; one with a success status delivers one
\* download under the fixed file name and shows no message.
C11_ExportByStatus ==
    ev.op = "exportResponse"
        => /\ ev.kind = "error" => (ev.alert = "PDF export failed" /\ ev.download = "")
           /\ ev.kind = "ok" => (ev.download = "WattCompare_Report.pdf" /\ ev.alert = "")

\* C11 witness: an export answered with a non-success status: message, no file.
C11_Witness ==
    /\ ev.op = "exportResponse" /\ ev.kind = "error"
    /\ ev.alert # "" /\ ev.download = ""

\* C12, for the action the claim singles out: the response of an Add the backend
\* refused (a non-success status) brings an alert that names the failure, and
\* is never reported as saved.
C12_NonSuccessAlerts ==
    (ev.op = "addResponse" /\ ~ev.accepted) => ev.alert \notin {"", "Saved"}

\* C13: the displayed comparison result changes only when a successful compare
\* response arrives.
C13_ResultChangesOnSuccessOnly ==
    [][compareResult' # compareResult
          => (ev'.op = "compareResponse" /\ compareResult'.status = "ok")]_vars

\* C14: the cached list is always a sequence of records, and the rendered
\* items are its records one for one, in order.
C14_CacheIsListAndRendered ==
    /\ appliances.isArray
    /\ Len(listEl) = Len(appliances.recs)
    /\ \A idx \in 1..Len(listEl) : listEl[idx].id = appliances.recs[idx].id

\* C15: once camera acquisition was denied, a Capture click issues no
\* extraction request and shows no message.
C15_CaptureDisabledWhenDenied ==
    [][(ev'.op = "capture" /\ camera = "denied")
          => (ocrReqs' = ocrReqs /\ ev'.alert = "")]_vars

\* What counts as an unknown detected value: the placeholder, or no text.
Unknown(text) == text \in {"", Placeholder}

\* C16: after an accepted Add that used the value an extraction detected, and
\* with no capture, upload or extraction response since, a Save click with an empty
\* manual field is rejected locally.
C16_DetectedUsedOnce ==
    [][(ev'.op = "save" /\ ev'.manual = "" /\ extraction.kind = "value" /\ extraction.saved)
          => (ev'.alert # "" /\ Len(addReqs') = Len(addReqs))]_vars

\* C17: after an extraction exchange that failed, or whose response held no
\* value, the detected text is unknown, not a value of an earlier extraction.
C17_UnknownAfterFailure ==
    (ev.op = "ocrFail" \/ (ev.op = "ocrResponse" /\ ev.kind # "value"))
        => Unknown(detectedEl)

\* C18: every list response that arrives replaces the cached list in full and
\* is rendered, whether or not the response of a request issued later was
\* handled before it: no check drops a response that was overtaken.
C18_LastArrivalWins ==
    [][ev'.op = "listResponse"
          => \E i \in 1..Len(listReqs) :
                /\ listReqs[i].served
                /\ listReqs' = Remove(Overtake(listReqs, i), i)
                /\ ev'.overtaken = listReqs[i].overtaken
                /\ appliances' = listReqs[i].body
                /\ listReqs[i].body.isArray
                      => /\ Len(listEl') = Len(listReqs[i].body.recs)
                         /\ \A idx \in 1..Len(listEl') :
                                listEl'[idx].id = listReqs[i].body.recs[idx].id]_vars

\* C18 witness: two fetches were in flight; the response of the one issued
\* first arrived last, after the other's, and the cache is its older list,
\* one record short of the backend's.
C18_Witness ==
    /\ ev.op = "listResponse" /\ ev.overtaken
    /\ listReqs = <<>>
    /\ appliances.isArray
    /\ Len(appliances.recs) < Len(backend)
    /\ Len(listEl) = Len(appliances.recs)

\* C19: only a toggle changes the selection pair; every other step, whatever
\* its outcome, leaves both slots as they were, and a Compare click that is
\* not rejected sends the pair as it stands, cached or not.
C19_OnlyTogglesSelect ==
    [][/\ ev'.op # "toggle" => selectedForCompare' = selectedForCompare
       /\ (ev'.op = "compare" /\ ev'.alert = "")
            => (/\ Len(cmpReqs') = Len(cmpReqs) + 1
                /\ Last(cmpReqs').ids = selectedForCompare)]_vars

\* C19 witness: a slot holds an id the cached list no longer has, and the
\* Compare click just taken has sent it.
C19_Witness ==
    /\ ev.op = "compare" /\ ev.alert = ""
    /\ cmpReqs # <<>> /\ Last(cmpReqs).ids = selectedForCompare
    /\ appliances.isArray /\ appliances.recs # <<>>
    /\ \E s \in Slots : Count(selectedForCompare[s + 1], appliances.recs) = 0

\* C20: when the latest extraction response held no estimated_kwh_per_year, a
\* Save click with an empty manual field is rejected locally, and no add
\* request carries the placeholder as aec.
C20_PlaceholderNeverSent ==
    [][(ev'.op = "save" /\ ev'.manual = "" /\ extraction.kind = "missing")
          => (ev'.alert # "" /\ Len(addReqs') = Len(addReqs))]_vars

====
